---- MODULE Spec2Model ----
(***************************************************************************)
(* Model of the forum backend: the storage layer (DatabaseStorage), the    *)
(* request middleware (checkBanned, csrfProtection, requireAuth,           *)
(* requireRole) and the route handlers of registerRoutes.                  *)
(*                                                                         *)
(* A request handled to completion is one step.                            *)
(*   Spec        : every request of every session, any header.             *)
(*   SpecContent : threads and posts, written by one web client.           *)
(*   SpecInvite  : the private-access workflow and user administration.    *)
(*   SpecSession : sessions, bans and the anti-forgery token.              *)
(*   SpecAccess  : roles, bans, the private category and thread locks.     *)
(*   SpecRace    : POST /api/private-invites split at its awaits, so that  *)
(*                 two requests interleave between their persistence calls.*)
(*   SpecRegister: POST /api/auth/register split at its awaits.            *)
(*   SpecViews   : GET /api/threads/:id split at its awaits.               *)
(*   SpecStorage : createThread, createPost, deletePost and deleteThread   *)
(*                 one step per statement, for two clients.                *)
(*   SpecAbandon : createPost one step per statement, any of which may be  *)
(*                 the last one that runs.                                 *)
(*   SpecBan     : createThread and createPost one step per statement,     *)
(*                 next to bans made on another session.                   *)
(***************************************************************************)
EXTENDS Integers, Sequences, FiniteSets, TLC

(* ------------------------------ bounds -------------------------------- *)
MaxUsers == 3
NumSessions == 2
MaxToken == 2
MaxThreads == 2
MaxPosts == 2
MaxInvites == 2
MaxLogs == 2
MaxViews == 2

(* --------------------------- program constants ------------------------ *)
MinReasonLen == 50

Sessions == 1..NumSessions
Tokens == 1..MaxToken
Headers == 0..MaxToken
Roles == {"admin", "moderator", "member", "new_user"}
InviteStatuses == {"approved", "rejected"}
CategoryIds == {1, 2}
Emails == {"admin@x", "mod@x", "u@x", "U@x"}
Usernames == {"admin", "user", "user "}
Reasons == {[len |-> 40, pad |-> 0], [len |-> 60, pad |-> 0], [len |-> 60, pad |-> 20]}
NULL == 0

VARIABLES users, categories, threads, posts, nextThreadId, nextPostId,
          invites, modLogs, sessions, now, pc

store == <<users, categories, threads, posts, nextThreadId, nextPostId,
           invites, modLogs>>
vars == <<users, categories, threads, posts, nextThreadId, nextPostId,
          invites, modLogs, sessions, now, pc>>

(* The database as one value, so that the storage methods are functions   *)
(* from database to database.                                             *)
DB == [users |-> users, categories |-> categories, threads |-> threads,
       posts |-> posts, nextThreadId |-> nextThreadId,
       nextPostId |-> nextPostId, invites |-> invites, modLogs |-> modLogs]

Commit(d) ==
    /\ users' = d.users
    /\ categories' = d.categories
    /\ threads' = d.threads
    /\ posts' = d.posts
    /\ nextThreadId' = d.nextThreadId
    /\ nextPostId' = d.nextPostId
    /\ invites' = d.invites
    /\ modLogs' = d.modLogs

(* ------------------------------ helpers ------------------------------- *)
toLowerCase(e) == IF e = "U@x" THEN "u@x" ELSE e

(* sanitizeInput escapes < > " ' and trims; of the names drawn here only   *)
(* the one with a trailing blank changes.                                 *)
sanitizeInput(x) == IF x = "user " THEN "user" ELSE x

trimLength(r) == r.len - r.pad

Put(f, k, v) == [i \in DOMAIN f \cup {k} |-> IF i = k THEN v ELSE f[i]]

Drop(f, K) == [i \in DOMAIN f \ K |-> f[i]]

SeedUser(name, mail, r) ==
    [username |-> name, email |-> mail, role |-> r, isBanned |-> FALSE,
     hasPrivateAccess |-> TRUE, postCount |-> 0, threadCount |-> 0]

SeedCategory(private) ==
    [isPrivate |-> private, threadCount |-> 0, postCount |-> 0]

NoSession == [userId |-> NULL, csrfToken |-> NULL]

(* ------------------------------- Init --------------------------------- *)
Init ==
    /\ users = <<SeedUser("admin", "admin@x", "admin"),
                 SeedUser("moderateur", "mod@x", "moderator")>>
    /\ categories = [c \in CategoryIds |-> SeedCategory(c = 2)]
    /\ threads = <<>>
    /\ posts = <<>>
    /\ nextThreadId = 1
    /\ nextPostId = 1
    /\ invites = <<>>
    /\ modLogs = <<>>
    /\ sessions = [s \in Sessions |-> NoSession]
    /\ now = 0
    /\ pc = [s \in Sessions |-> [at |-> "idle"]]

(* ================== storage layer: DatabaseStorage ==================== *)
(* Every method maps a database value d to the database after the call.   *)

getUser(d, id) == IF id \in DOMAIN d.users THEN id ELSE NULL

getUserByEmail(d, mail) ==
    IF \E i \in DOMAIN d.users : d.users[i].email = mail
    THEN CHOOSE i \in DOMAIN d.users : d.users[i].email = mail
    ELSE NULL

getUserByUsername(d, name) ==
    IF \E i \in DOMAIN d.users : d.users[i].username = name
    THEN CHOOSE i \in DOMAIN d.users : d.users[i].username = name
    ELSE NULL

createUser(d, name, mail, r) ==
    [d EXCEPT !.users = Append(@,
        [username |-> name, email |-> mail, role |-> r, isBanned |-> FALSE,
         hasPrivateAccess |-> FALSE, postCount |-> 0, threadCount |-> 0])]

updateUserRole(d, id, r) ==
    IF id \in DOMAIN d.users THEN [d EXCEPT !.users[id].role = r] ELSE d

updateUserBan_revoking(d, id) ==
    IF id \in DOMAIN d.users
    THEN [d EXCEPT !.users[id] =
            [@ EXCEPT !.isBanned = TRUE, !.hasPrivateAccess = FALSE]]
    ELSE d

updateUserBan(d, id) ==
    IF id \in DOMAIN d.users THEN [d EXCEPT !.users[id].isBanned = TRUE] ELSE d

CountThreads(d, cid) ==
    Cardinality({t \in DOMAIN d.threads : d.threads[t].categoryId = cid})

CountPosts(d, cid) ==
    Cardinality({p \in DOMAIN d.posts :
        /\ d.posts[p].threadId \in DOMAIN d.threads
        /\ d.threads[d.posts[p].threadId].categoryId = cid})

updateCategoryStats_threadsOnly(d, id) ==
    IF id \in DOMAIN d.categories
    THEN [d EXCEPT !.categories[id].threadCount = CountThreads(d, id)]
    ELSE d

updateCategoryStats(d, id) ==
    IF id \in DOMAIN d.categories
    THEN [d EXCEPT !.categories[id] =
            [@ EXCEPT !.threadCount = CountThreads(d, id),
                      !.postCount = CountPosts(d, id)]]
    ELSE d

NewThread(cid, author) ==
    [categoryId |-> cid, authorId |-> author, isLocked |-> FALSE,
     viewCount |-> 0, replyCount |-> 0, lastReplyAt |-> NULL,
     lastReplyById |-> NULL]

insertThread(d, cid, author) ==
    [d EXCEPT !.threads = Put(@, d.nextThreadId, NewThread(cid, author)),
              !.nextThreadId = @ + 1]

bumpThreadCount(d, author) ==
    [d EXCEPT !.users[author].threadCount = @ + 1]

createThread(d, cid, author) ==
    updateCategoryStats(bumpThreadCount(insertThread(d, cid, author), author), cid)

removeThread(d, id) ==
    [d EXCEPT !.threads = Drop(@, {id}),
              !.posts = Drop(@, {p \in DOMAIN d.posts : d.posts[p].threadId = id})]

deleteThread(d, id) ==
    IF id \in DOMAIN d.threads
    THEN updateCategoryStats(removeThread(d, id), d.threads[id].categoryId)
    ELSE d

(* updateThread(id, {isLocked}) *)
updateThreadLock(d, id, locked) ==
    IF id \in DOMAIN d.threads
    THEN [d EXCEPT !.threads[id].isLocked = locked]
    ELSE d

incrementViewCount_everyThread(d, id) ==
    [d EXCEPT !.threads = [t \in DOMAIN @ |-> [@[t] EXCEPT !.viewCount = @ + 1]]]

incrementViewCount(d, id) ==
    IF id \in DOMAIN d.threads
    THEN [d EXCEPT !.threads[id].viewCount = @ + 1]
    ELSE d

insertPost(d, tid, author, t) ==
    [d EXCEPT !.posts = Put(@, d.nextPostId,
                  [threadId |-> tid, authorId |-> author, createdAt |-> t]),
              !.nextPostId = @ + 1]

touchThread(d, tid, author, t) ==
    IF tid \in DOMAIN d.threads
    THEN [d EXCEPT !.threads[tid] =
            [@ EXCEPT !.replyCount = @ + 1, !.lastReplyAt = t,
                      !.lastReplyById = author]]
    ELSE d

bumpPostCount(d, author) ==
    [d EXCEPT !.users[author].postCount = @ + 1]

statsOfThread(d, tid) ==
    IF tid \in DOMAIN d.threads
    THEN updateCategoryStats(d, d.threads[tid].categoryId)
    ELSE d

createPost(d, tid, author, t) ==
    statsOfThread(
        bumpPostCount(touchThread(insertPost(d, tid, author, t), tid, author, t),
                      author),
        tid)

removePost(d, id) == [d EXCEPT !.posts = Drop(@, {id})]

decrementReplyCount_skipped(d, tid) == d

decrementReplyCount(d, tid) ==
    IF tid \in DOMAIN d.threads
    THEN [d EXCEPT !.threads[tid].replyCount = @ - 1]
    ELSE d

deletePost(d, id) ==
    IF id \in DOMAIN d.posts
    THEN statsOfThread(
            decrementReplyCount(removePost(d, id), d.posts[id].threadId),
            d.posts[id].threadId)
    ELSE d

(* The id of the user's request with the latest createdAt, NULL if none.  *)
getPrivateInviteByUser(d, uid) ==
    LET mine == {i \in DOMAIN d.invites : d.invites[i].userId = uid}
    IN IF mine = {} THEN NULL
       ELSE CHOOSE i \in mine :
              \A j \in mine : d.invites[j].createdAt <= d.invites[i].createdAt

createPrivateInvite(d, uid, t) ==
    [d EXCEPT !.invites = Append(@,
        [userId |-> uid, status |-> "pending", reviewedById |-> NULL,
         reviewedAt |-> NULL, createdAt |-> t])]

(* The UPDATE ... WHERE id = :id RETURNING of updatePrivateInvite.         *)
setInviteStatus(d, id, status, reviewer, t) ==
    IF id \in DOMAIN d.invites
    THEN [d EXCEPT !.invites[id] =
            [@ EXCEPT !.status = status, !.reviewedById = reviewer,
                      !.reviewedAt = t]]
    ELSE d

grantPrivateAccess(d, uid) ==
    [d EXCEPT !.users[uid].hasPrivateAccess = TRUE]

updatePrivateInvite_noGrant(d, id, status, reviewer, t) ==
    setInviteStatus(d, id, status, reviewer, t)

updatePrivateInvite(d, id, status, reviewer, t) ==
    IF id \in DOMAIN d.invites /\ status = "approved"
    THEN grantPrivateAccess(setInviteStatus(d, id, status, reviewer, t),
                            d.invites[id].userId)
    ELSE setInviteStatus(d, id, status, reviewer, t)

createModerationLog_prepending(d, moderator, target, action) ==
    [d EXCEPT !.modLogs =
        <<[moderatorId |-> moderator, targetUserId |-> target,
           action |-> action]>> \o @]

createModerationLog(d, moderator, target, action) ==
    [d EXCEPT !.modLogs = Append(@,
        [moderatorId |-> moderator, targetUserId |-> target,
         action |-> action])]

(* ===================== middleware of registerRoutes ==================== *)
(* A request handled to completion is a function of the database d, the   *)
(* session sess it is presented with, the clock and its inputs; its       *)
(* outcome is the response kind, the database, the session and the clock  *)
(* it leaves.                                                             *)
Out(kind, d, sess, clock) ==
    [kind |-> kind, db |-> d, sess |-> sess, now |-> clock]

SafeMethods == {"GET", "HEAD", "OPTIONS"}

checkBanned_sparingAdmins(d, sess) ==
    /\ sess.userId # NULL
    /\ d.users[sess.userId].isBanned
    /\ d.users[sess.userId].role # "admin"

(* checkBanned: the session's user is found banned.                       *)
checkBanned(d, sess) ==
    /\ sess.userId # NULL
    /\ d.users[sess.userId].isBanned

csrfIssue_never(sess, t) == sess

(* csrfProtection, first part: the session after lazy token issuance; t   *)
(* is the value generateToken() returns.                                  *)
csrfIssue(sess, t) ==
    IF sess.csrfToken = NULL THEN [sess EXCEPT !.csrfToken = t] ELSE sess

csrfProtection_anyHeader(sess, method, hdr) ==
    \/ method \in SafeMethods
    \/ hdr # NULL

(* csrfProtection, second part: does the request go on to its handler?    *)
csrfProtection(sess, method, hdr) ==
    \/ method \in SafeMethods
    \/ (hdr # NULL /\ hdr = sess.csrfToken)

requireAuth(sess) == sess.userId # NULL

requireRole_anyUser(d, sess, roles) ==
    IF sess.userId = NULL THEN "Unauthenticated" ELSE "next"

requireRole(d, sess, roles) ==
    IF sess.userId = NULL THEN "Unauthenticated"
    ELSE IF d.users[sess.userId].role \in roles THEN "next"
    ELSE "Forbidden"

(* ========================== route handlers ============================= *)
(* GET /api/csrf-token *)
getCsrfToken(d, sess, clock) == Out("OK", d, sess, clock)

(* POST /api/auth/register *)
(* The insert of the new user and what follows it.  The users table has   *)
(* unique constraints on username and email: an insert that breaks one    *)
(* throws, and the catch block answers 500.                               *)
registerInsert_rotating(d, sess, clock, name, mail) ==
    IF \/ getUserByEmail(d, toLowerCase(mail)) # NULL
       \/ getUserByUsername(d, sanitizeInput(name)) # NULL
    THEN Out("Internal", d, sess, clock)
    ELSE Out("Created",
             createUser(d, sanitizeInput(name), toLowerCase(mail), "new_user"),
             [sess EXCEPT !.userId = Len(d.users) + 1, !.csrfToken = NULL],
             clock)

registerInsert(d, sess, clock, name, mail) ==
    IF \/ getUserByEmail(d, toLowerCase(mail)) # NULL
       \/ getUserByUsername(d, sanitizeInput(name)) # NULL
    THEN Out("Internal", d, sess, clock)
    ELSE Out("Created",
             createUser(d, sanitizeInput(name), toLowerCase(mail), "new_user"),
             [sess EXCEPT !.userId = Len(d.users) + 1], clock)

registerHandler(d, sess, clock, name, mail, valid) ==
    IF ~valid THEN Out("Validation", d, sess, clock)
    ELSE IF getUserByEmail(d, mail) # NULL THEN Out("Conflict", d, sess, clock)
    ELSE IF getUserByUsername(d, name) # NULL THEN Out("Conflict", d, sess, clock)
    ELSE registerInsert(d, sess, clock, name, mail)

loginHandler_ignoringBan(d, sess, clock, mail, validPassword) ==
    LET uid == getUserByEmail(d, toLowerCase(mail))
    IN IF uid = NULL THEN Out("Unauthenticated", d, sess, clock)
       ELSE IF ~validPassword THEN Out("Unauthenticated", d, sess, clock)
       ELSE Out("OK", d, [sess EXCEPT !.userId = uid], clock)

(* POST /api/auth/login *)
loginHandler(d, sess, clock, mail, validPassword) ==
    LET uid == getUserByEmail(d, toLowerCase(mail))
    IN IF uid = NULL THEN Out("Unauthenticated", d, sess, clock)
       ELSE IF d.users[uid].isBanned THEN Out("Forbidden", d, sess, clock)
       ELSE IF ~validPassword THEN Out("Unauthenticated", d, sess, clock)
       ELSE Out("OK", d, [sess EXCEPT !.userId = uid], clock)

logoutHandler_cookieOnly(d, sess, clock) == Out("OK", d, sess, clock)

logoutHandler_keepingSession(d, sess, clock) ==
    Out("OK", d, [sess EXCEPT !.userId = NULL], clock)

(* POST /api/auth/logout *)
logoutHandler(d, sess, clock) == Out("OK", d, NoSession, clock)

(* The private-section check of the read routes.                          *)
PrivateDenied(d, sess, cid) ==
    /\ d.categories[cid].isPrivate
    /\ \/ sess.userId = NULL
       \/ ~d.users[sess.userId].hasPrivateAccess

(* GET /api/categories/:slug; the slug is modelled by the category's id.  *)
getCategoryHandler(d, sess, clock, cid) ==
    IF cid \notin DOMAIN d.categories THEN Out("NotFound", d, sess, clock)
    ELSE IF PrivateDenied(d, sess, cid) THEN Out("Forbidden", d, sess, clock)
    ELSE Out("OK", d, sess, clock)

(* GET /api/categories/:slug/threads *)
getCategoryThreadsHandler(d, sess, clock, cid) ==
    IF cid \notin DOMAIN d.categories THEN Out("NotFound", d, sess, clock)
    ELSE IF PrivateDenied(d, sess, cid) THEN Out("Forbidden", d, sess, clock)
    ELSE Out("OK", d, sess, clock)

(* GET /api/threads/:id/posts *)
getThreadPostsHandler(d, sess, clock, tid) ==
    IF tid \notin DOMAIN d.threads THEN Out("NotFound", d, sess, clock)
    ELSE IF PrivateDenied(d, sess, d.threads[tid].categoryId)
         THEN Out("Forbidden", d, sess, clock)
    ELSE Out("OK", d, sess, clock)

getThreadHandler_countingFirst(d, sess, clock, tid) ==
    IF tid \notin DOMAIN d.threads THEN Out("NotFound", d, sess, clock)
    ELSE IF PrivateDenied(d, sess, d.threads[tid].categoryId)
         THEN Out("Forbidden", incrementViewCount(d, tid), sess, clock)
    ELSE Out("OK", incrementViewCount(d, tid), sess, clock)

(* GET /api/threads/:id *)
getThreadHandler(d, sess, clock, tid) ==
    IF tid \notin DOMAIN d.threads THEN Out("NotFound", d, sess, clock)
    ELSE IF PrivateDenied(d, sess, d.threads[tid].categoryId)
         THEN Out("Forbidden", d, sess, clock)
    ELSE Out("OK", incrementViewCount(d, tid), sess, clock)

(* POST /api/threads *)
createThreadHandler(d, sess, clock, cid, wellFormed) ==
    IF ~requireAuth(sess) THEN Out("Unauthenticated", d, sess, clock)
    ELSE IF d.users[sess.userId].role = "new_user"
         THEN Out("Forbidden", d, sess, clock)
    ELSE IF cid \notin DOMAIN d.categories THEN Out("Validation", d, sess, clock)
    ELSE IF d.categories[cid].isPrivate /\ ~d.users[sess.userId].hasPrivateAccess
         THEN Out("Forbidden", d, sess, clock)
    ELSE IF ~wellFormed THEN Out("Internal", d, sess, clock)
    ELSE Out("Created", createThread(d, cid, sess.userId), sess, clock)

createPostHandler_anyRole(d, sess, clock, tid, hasContent) ==
    IF ~requireAuth(sess) THEN Out("Unauthenticated", d, sess, clock)
    ELSE IF tid \notin DOMAIN d.threads THEN Out("NotFound", d, sess, clock)
    ELSE IF d.threads[tid].isLocked THEN Out("Locked", d, sess, clock)
    ELSE IF d.categories[d.threads[tid].categoryId].isPrivate
            /\ ~d.users[sess.userId].hasPrivateAccess
         THEN Out("Forbidden", d, sess, clock)
    ELSE IF ~hasContent THEN Out("Validation", d, sess, clock)
    ELSE Out("Created", createPost(d, tid, sess.userId, clock + 1), sess,
             clock + 1)

createPostHandler_staffBypass(d, sess, clock, tid, hasContent) ==
    IF ~requireAuth(sess) THEN Out("Unauthenticated", d, sess, clock)
    ELSE IF d.users[sess.userId].role = "new_user"
         THEN Out("Forbidden", d, sess, clock)
    ELSE IF tid \notin DOMAIN d.threads THEN Out("NotFound", d, sess, clock)
    ELSE IF d.threads[tid].isLocked
            /\ d.users[sess.userId].role \notin {"admin", "moderator"}
         THEN Out("Locked", d, sess, clock)
    ELSE IF d.categories[d.threads[tid].categoryId].isPrivate
            /\ ~d.users[sess.userId].hasPrivateAccess
         THEN Out("Forbidden", d, sess, clock)
    ELSE IF ~hasContent THEN Out("Validation", d, sess, clock)
    ELSE Out("Created", createPost(d, tid, sess.userId, clock + 1), sess,
             clock + 1)

(* POST /api/threads/:id/posts *)
createPostHandler(d, sess, clock, tid, hasContent) ==
    IF ~requireAuth(sess) THEN Out("Unauthenticated", d, sess, clock)
    ELSE IF d.users[sess.userId].role = "new_user"
         THEN Out("Forbidden", d, sess, clock)
    ELSE IF tid \notin DOMAIN d.threads THEN Out("NotFound", d, sess, clock)
    ELSE IF d.threads[tid].isLocked THEN Out("Locked", d, sess, clock)
    ELSE IF d.categories[d.threads[tid].categoryId].isPrivate
            /\ ~d.users[sess.userId].hasPrivateAccess
         THEN Out("Forbidden", d, sess, clock)
    ELSE IF ~hasContent THEN Out("Validation", d, sess, clock)
    ELSE Out("Created", createPost(d, tid, sess.userId, clock + 1), sess,
             clock + 1)

(* DELETE /api/posts/:id *)
(* GET /api/admin/moderation-logs *)
getModerationLogsHandler(d, sess, clock) ==
    IF requireRole(d, sess, {"admin", "moderator"}) # "next"
    THEN Out(requireRole(d, sess, {"admin", "moderator"}), d, sess, clock)
    ELSE Out("OK", d, sess, clock)

deletePostHandler(d, sess, clock, pid) ==
    IF requireRole(d, sess, {"admin", "moderator"}) # "next"
    THEN Out(requireRole(d, sess, {"admin", "moderator"}), d, sess, clock)
    ELSE Out("OK",
             createModerationLog(deletePost(d, pid), sess.userId, NULL,
                                 "delete_post"),
             sess, clock)

(* POST /api/private-invites *)
HasPending_anyStatus(d, uid) == getPrivateInviteByUser(d, uid) # NULL

HasPending(d, uid) ==
    /\ getPrivateInviteByUser(d, uid) # NULL
    /\ d.invites[getPrivateInviteByUser(d, uid)].status = "pending"

submitInviteHandler(d, sess, clock, reason) ==
    IF ~requireAuth(sess) THEN Out("Unauthenticated", d, sess, clock)
    ELSE IF d.users[sess.userId].hasPrivateAccess
         THEN Out("Conflict", d, sess, clock)
    ELSE IF HasPending(d, sess.userId) THEN Out("Conflict", d, sess, clock)
    ELSE IF trimLength(reason) < MinReasonLen
         THEN Out("Validation", d, sess, clock)
    ELSE Out("Created", createPrivateInvite(d, sess.userId, clock + 1), sess,
             clock + 1)

(* PATCH /api/admin/private-invites/:id *)
decideInviteHandler(d, sess, clock, id, status) ==
    IF requireRole(d, sess, {"admin", "moderator"}) # "next"
    THEN Out(requireRole(d, sess, {"admin", "moderator"}), d, sess, clock)
    ELSE IF status \notin InviteStatuses THEN Out("Validation", d, sess, clock)
    ELSE IF id \notin DOMAIN d.invites THEN Out("NotFound", d, sess, clock)
    ELSE Out("OK",
             createModerationLog(
                 updatePrivateInvite(d, id, status, sess.userId, clock + 1),
                 sess.userId, d.invites[id].userId,
                 IF status = "approved" THEN "approve_invite"
                 ELSE "reject_invite"),
             sess, clock + 1)

(* PATCH /api/admin/users/:id/role *)
setRoleHandler(d, sess, clock, uid, role) ==
    IF requireRole(d, sess, {"admin"}) # "next"
    THEN Out(requireRole(d, sess, {"admin"}), d, sess, clock)
    ELSE IF role \notin Roles THEN Out("Validation", d, sess, clock)
    ELSE IF getUser(d, uid) = NULL THEN Out("NotFound", d, sess, clock)
    ELSE Out("OK",
             createModerationLog(updateUserRole(d, uid, role), sess.userId,
                                 uid, "warn_user"),
             sess, clock)

(* POST /api/admin/users/:id/ban *)
banUserHandler(d, sess, clock, uid) ==
    IF requireRole(d, sess, {"admin"}) # "next"
    THEN Out(requireRole(d, sess, {"admin"}), d, sess, clock)
    ELSE IF getUser(d, uid) = NULL THEN Out("NotFound", d, sess, clock)
    ELSE Out("OK",
             createModerationLog(updateUserBan(d, uid), sess.userId, uid,
                                 "ban_user"),
             sess, clock)

(* ------------------------------ requests ------------------------------- *)
UserIdInputs == 1..(MaxUsers + 1)
ThreadIdInputs == 1..(MaxThreads + 1)
PostIdInputs == 1..(MaxPosts + 1)
InviteIdInputs == 1..(MaxInvites + 1)
CategoryIdInputs == CategoryIds \cup {3}
RoleInputs == Roles \cup {"owner"}
StatusInputs == InviteStatuses \cup {"pending"}

Requests ==
    [op : {"csrfToken", "logout", "getModerationLogs"}]
    \cup [op : {"register"}, name : Usernames, mail : Emails, valid : BOOLEAN]
    \cup [op : {"login"}, mail : Emails, validPassword : BOOLEAN]
    \cup [op : {"getCategory", "getCategoryThreads"}, cid : CategoryIdInputs]
    \cup [op : {"getThread", "getThreadPosts"}, tid : ThreadIdInputs]
    \cup [op : {"createThread"}, cid : CategoryIdInputs, wellFormed : BOOLEAN]
    \cup [op : {"createPost"}, tid : ThreadIdInputs, hasContent : BOOLEAN]
    \cup [op : {"deletePost"}, pid : PostIdInputs]
    \cup [op : {"submitInvite"}, reason : Reasons]
    \cup [op : {"decideInvite"}, id : InviteIdInputs, status : StatusInputs]
    \cup [op : {"setRole"}, uid : UserIdInputs, role : RoleInputs]
    \cup [op : {"banUser"}, uid : UserIdInputs]

Method(r) ==
    CASE r.op \in {"csrfToken", "getCategory", "getCategoryThreads",
                   "getThread", "getThreadPosts", "getModerationLogs"} -> "GET"
      [] r.op \in {"decideInvite", "setRole"} -> "PATCH"
      [] r.op = "deletePost" -> "DELETE"
      [] OTHER -> "POST"

(* The route table: the handler registered for the request.               *)
Dispatch(d, sess, clock, r) ==
    CASE r.op = "csrfToken" -> getCsrfToken(d, sess, clock)
      [] r.op = "register" ->
            registerHandler(d, sess, clock, r.name, r.mail, r.valid)
      [] r.op = "login" -> loginHandler(d, sess, clock, r.mail, r.validPassword)
      [] r.op = "logout" -> logoutHandler(d, sess, clock)
      [] r.op = "getCategory" -> getCategoryHandler(d, sess, clock, r.cid)
      [] r.op = "getCategoryThreads" ->
            getCategoryThreadsHandler(d, sess, clock, r.cid)
      [] r.op = "getThread" -> getThreadHandler(d, sess, clock, r.tid)
      [] r.op = "getThreadPosts" -> getThreadPostsHandler(d, sess, clock, r.tid)
      [] r.op = "createThread" ->
            createThreadHandler(d, sess, clock, r.cid, r.wellFormed)
      [] r.op = "createPost" ->
            createPostHandler(d, sess, clock, r.tid, r.hasContent)
      [] r.op = "deletePost" -> deletePostHandler(d, sess, clock, r.pid)
      [] r.op = "getModerationLogs" -> getModerationLogsHandler(d, sess, clock)
      [] r.op = "submitInvite" -> submitInviteHandler(d, sess, clock, r.reason)
      [] r.op = "decideInvite" ->
            decideInviteHandler(d, sess, clock, r.id, r.status)
      [] r.op = "setRole" -> setRoleHandler(d, sess, clock, r.uid, r.role)
      [] r.op = "banUser" -> banUserHandler(d, sess, clock, r.uid)

(* The middleware chain in the order registerRoutes installs it:          *)
(* checkBanned, csrfProtection, then the route.  hdr is the X-CSRF-Token   *)
(* header (NULL: absent), t the token generateToken() would return.       *)
Handle(d, sess, clock, hdr, t, r) ==
    IF checkBanned(d, sess) THEN Out("Forbidden", d, NoSession, clock)
    ELSE IF ~csrfProtection(csrfIssue(sess, t), Method(r), hdr)
         THEN Out("ForbiddenCsrf", d, csrfIssue(sess, t), clock)
    ELSE Dispatch(d, csrfIssue(sess, t), clock, r)

(* generateToken() draws 32 random bytes: any token, except the value the *)
(* client put in the header of this very request, which it chose before   *)
(* the token existed.                                                     *)
generateToken(sess, hdr) ==
    IF sess.csrfToken = NULL THEN Tokens \ {hdr} ELSE {sess.csrfToken}

(* The caps that keep the model finite.                                   *)
WithinBounds(d) ==
    /\ Len(d.users) <= MaxUsers
    /\ d.nextThreadId <= MaxThreads + 1
    /\ d.nextPostId <= MaxPosts + 1
    /\ Len(d.invites) <= MaxInvites
    /\ Len(d.modLogs) <= MaxLogs
    /\ \A i \in DOMAIN d.threads : d.threads[i].viewCount <= MaxViews

Idle(s) == pc[s].at = "idle"

Apply(s, out) ==
    /\ WithinBounds(out.db)
    /\ Commit(out.db)
    /\ sessions' = [sessions EXCEPT ![s] = out.sess]
    /\ now' = out.now
    /\ UNCHANGED pc

(* One request of session s handled to completion.                        *)
Serve(s, hdr, r) ==
    \E t \in generateToken(sessions[s], hdr) :
        \E out \in {Handle(DB, sessions[s], now, hdr, t, r)} : Apply(s, out)

GetCsrfToken(s, hdr) ==
    /\ Idle(s)
    /\ Serve(s, hdr, [op |-> "csrfToken"])

Register(s, hdr, name, mail, valid) ==
    /\ Idle(s)
    /\ Serve(s, hdr, [op |-> "register", name |-> name, mail |-> mail,
                      valid |-> valid])

Login(s, hdr, mail, validPassword) ==
    /\ Idle(s)
    /\ Serve(s, hdr, [op |-> "login", mail |-> mail,
                      validPassword |-> validPassword])

Logout(s, hdr) ==
    /\ Idle(s)
    /\ Serve(s, hdr, [op |-> "logout"])

GetCategory(s, hdr, cid) ==
    /\ Idle(s)
    /\ Serve(s, hdr, [op |-> "getCategory", cid |-> cid])

GetCategoryThreads(s, hdr, cid) ==
    /\ Idle(s)
    /\ Serve(s, hdr, [op |-> "getCategoryThreads", cid |-> cid])

GetThreadPosts(s, hdr, tid) ==
    /\ Idle(s)
    /\ Serve(s, hdr, [op |-> "getThreadPosts", tid |-> tid])

GetModerationLogs(s, hdr) ==
    /\ Idle(s)
    /\ Serve(s, hdr, [op |-> "getModerationLogs"])

GetThread(s, hdr, tid) ==
    /\ Idle(s)
    /\ Serve(s, hdr, [op |-> "getThread", tid |-> tid])

CreateThread(s, hdr, cid, wellFormed) ==
    /\ Idle(s)
    /\ Serve(s, hdr, [op |-> "createThread", cid |-> cid,
                      wellFormed |-> wellFormed])

CreatePost(s, hdr, tid, hasContent) ==
    /\ Idle(s)
    /\ Serve(s, hdr, [op |-> "createPost", tid |-> tid,
                      hasContent |-> hasContent])

DeletePost(s, hdr, pid) ==
    /\ Idle(s)
    /\ Serve(s, hdr, [op |-> "deletePost", pid |-> pid])

SubmitInvite(s, hdr, reason) ==
    /\ Idle(s)
    /\ Serve(s, hdr, [op |-> "submitInvite", reason |-> reason])

DecideInvite(s, hdr, id, status) ==
    /\ Idle(s)
    /\ Serve(s, hdr, [op |-> "decideInvite", id |-> id, status |-> status])

SetRole(s, hdr, uid, role) ==
    /\ Idle(s)
    /\ Serve(s, hdr, [op |-> "setRole", uid |-> uid, role |-> role])

BanUser(s, hdr, uid) ==
    /\ Idle(s)
    /\ Serve(s, hdr, [op |-> "banUser", uid |-> uid])

(* DatabaseStorage.deleteThread: no route calls it; it is called on the   *)
(* storage object directly.                                               *)
DeleteThread(tid) ==
    /\ \A s \in Sessions : Idle(s)
    /\ tid \in DOMAIN threads
    /\ \E d \in {deleteThread(DB, tid)} : Commit(d)
    /\ UNCHANGED <<sessions, now, pc>>

(* DatabaseStorage.updateThread with isLocked: no route calls it; it is    *)
(* called on the storage object directly.                                 *)
LockThread(tid, locked) ==
    /\ \A s \in Sessions : Idle(s)
    /\ tid \in DOMAIN threads
    /\ threads[tid].isLocked # locked
    /\ \E d \in {updateThreadLock(DB, tid, locked)} : Commit(d)
    /\ UNCHANGED <<sessions, now, pc>>

(* ---- POST /api/private-invites, one step per awaited storage call ----- *)
(* Middleware, requireAuth, getUser and the grant check.                  *)
SubmitStart(s, hdr, reason) ==
    /\ Idle(s)
    /\ \E t \in generateToken(sessions[s], hdr) :
        LET sess == csrfIssue(sessions[s], t)
            early == Handle(DB, sessions[s], now, hdr, t,
                            [op |-> "submitInvite", reason |-> reason])
        IN IF \/ checkBanned(DB, sessions[s])
              \/ ~csrfProtection(sess, "POST", hdr)
              \/ ~requireAuth(sess)
              \/ users[sess.userId].hasPrivateAccess
           THEN Apply(s, early)
           ELSE /\ sessions' = [sessions EXCEPT ![s] = sess]
                /\ pc' = [pc EXCEPT ![s] = [at |-> "read", uid |-> sess.userId,
                                            reason |-> reason]]
                /\ UNCHANGED <<store, now>>

(* await storage.getPrivateInviteByUser(user.id) *)
SubmitRead(s) ==
    /\ pc[s].at = "read"
    /\ pc' = [pc EXCEPT ![s] = [at |-> "insert", uid |-> pc[s].uid,
                                reason |-> pc[s].reason,
                                existingPending |-> HasPending(DB, pc[s].uid)]]
    /\ UNCHANGED <<store, sessions, now>>

(* The checks on what was read, then await storage.createPrivateInvite.   *)
SubmitInsert(s) ==
    /\ pc[s].at = "insert"
    /\ pc' = [pc EXCEPT ![s] = [at |-> "idle"]]
    /\ IF pc[s].existingPending \/ trimLength(pc[s].reason) < MinReasonLen
       THEN UNCHANGED <<store, sessions, now>>
       ELSE /\ \E d \in {createPrivateInvite(DB, pc[s].uid, now + 1)} :
                 WithinBounds(d) /\ Commit(d)
            /\ now' = now + 1
            /\ UNCHANGED sessions

(* ---- content writes, one step per awaited persistence statement ------ *)
(* pc[s].route is the route or storage call in progress; DELETE           *)
(* /api/posts/:id goes on to createModerationLog when storage.deletePost  *)
(* returns, the other calls answer.                                       *)
Return(p) ==
    IF p.route = "deletePost"
    THEN [at |-> "createModerationLog", route |-> p.route, author |-> p.author]
    ELSE [at |-> "idle"]

(* One persistence statement of session s: the database becomes d, the    *)
(* clock reads clock, and the request moves on to next.                   *)
Statement(s, next, d, clock) ==
    /\ WithinBounds(d)
    /\ Commit(d)
    /\ pc' = [pc EXCEPT ![s] = next]
    /\ now' = clock
    /\ UNCHANGED sessions

(* A request whose middleware and checks all pass enters its storage call *)
(* at first; a refused one is answered in this step.                      *)
Enter(s, hdr, r, first) ==
    /\ Idle(s)
    /\ \E t \in generateToken(sessions[s], hdr) :
        LET early == Handle(DB, sessions[s], now, hdr, t, r)
        IN IF early.kind \notin {"Created", "OK"}
           THEN Apply(s, early)
           ELSE /\ sessions' = [sessions EXCEPT ![s] = csrfIssue(sessions[s], t)]
                /\ pc' = [pc EXCEPT ![s] = first]
                /\ UNCHANGED <<store, now>>

(* POST /api/threads up to the call of storage.createThread *)
CreateThreadStart(s, hdr, cid, wellFormed) ==
    Enter(s, hdr, [op |-> "createThread", cid |-> cid, wellFormed |-> wellFormed],
          [at |-> "insertThread", route |-> "createThread", cid |-> cid,
           author |-> sessions[s].userId])

(* POST /api/threads/:id/posts up to the call of storage.createPost *)
CreatePostStart(s, hdr, tid, hasContent) ==
    Enter(s, hdr, [op |-> "createPost", tid |-> tid, hasContent |-> hasContent],
          [at |-> "insertPost", route |-> "createPost", tid |-> tid,
           author |-> sessions[s].userId])

(* DELETE /api/posts/:id up to the call of storage.deletePost *)
DeletePostStart(s, hdr, pid) ==
    Enter(s, hdr, [op |-> "deletePost", pid |-> pid],
          [at |-> "selectPost", route |-> "deletePost", pid |-> pid,
           author |-> sessions[s].userId])

(* storage.deleteThread called directly, running in the task slot s.      *)
DeleteThreadStart(s, tid) ==
    /\ Idle(s)
    /\ pc' = [pc EXCEPT ![s] = [at |-> "getThread", route |-> "deleteThread",
                                tid |-> tid]]
    /\ UNCHANGED <<store, sessions, now>>

(* createThread: db.insert(threads) *)
InsertThread(s) ==
    /\ pc[s].at = "insertThread"
    /\ Statement(s, [pc[s] EXCEPT !.at = "bumpThreadCount"],
                 insertThread(DB, pc[s].cid, pc[s].author), now)

(* createThread: db.update(users) threadCount + 1, then updateCategoryStats *)
BumpThreadCount(s) ==
    /\ pc[s].at = "bumpThreadCount"
    /\ Statement(s, [at |-> "countThreads", route |-> pc[s].route,
                     cid |-> pc[s].cid],
                 bumpThreadCount(DB, pc[s].author), now)

InsertPost_deferred(s) ==
    /\ pc[s].at = "insertPost"
    /\ Statement(s, [pc[s] EXCEPT !.at = "touchThread"], DB, now)

(* createPost: db.insert(posts).  posts.thread_id references threads: the *)
(* insert throws when the thread is gone and the route answers 500.       *)
InsertPost(s) ==
    /\ pc[s].at = "insertPost"
    /\ IF pc[s].tid \in DOMAIN threads
       THEN Statement(s, [pc[s] EXCEPT !.at = "touchThread"],
                      insertPost(DB, pc[s].tid, pc[s].author, now + 1), now + 1)
       ELSE Statement(s, [at |-> "idle"], DB, now)

(* createPost: db.update(threads) replyCount + 1, lastReplyAt, lastReplyById *)
TouchThread(s) ==
    /\ pc[s].at = "touchThread"
    /\ Statement(s, [pc[s] EXCEPT !.at = "bumpPostCount"],
                 touchThread(DB, pc[s].tid, pc[s].author, now + 1), now + 1)

(* createPost: db.update(users) postCount + 1 *)
BumpPostCount(s) ==
    /\ pc[s].at = "bumpPostCount"
    /\ Statement(s, [pc[s] EXCEPT !.at = "selectThread"],
                 bumpPostCount(DB, pc[s].author), now)

(* createPost and deletePost: db.select().from(threads), then             *)
(* updateCategoryStats when the thread is there.                          *)
SelectThread(s) ==
    /\ pc[s].at = "selectThread"
    /\ Statement(s, IF pc[s].tid \in DOMAIN threads
                    THEN [at |-> "countThreads", route |-> pc[s].route,
                          author |-> pc[s].author,
                          cid |-> threads[pc[s].tid].categoryId]
                    ELSE Return(pc[s]),
                 DB, now)

(* updateCategoryStats: count of the rows of threads *)
SelectThreadCount(s) ==
    /\ pc[s].at = "countThreads"
    /\ Statement(s, [pc[s] EXCEPT !.at = "countPosts"] @@
                    [threadResult |-> CountThreads(DB, pc[s].cid)],
                 DB, now)

(* updateCategoryStats: count of the rows of posts joined to threads *)
SelectPostCount(s) ==
    /\ pc[s].at = "countPosts"
    /\ Statement(s, [pc[s] EXCEPT !.at = "updateCategory"] @@
                    [postResult |-> CountPosts(DB, pc[s].cid)],
                 DB, now)

(* updateCategoryStats: db.update(categories) with the counts read *)
UpdateCategory(s) ==
    /\ pc[s].at = "updateCategory"
    /\ Statement(s, Return(pc[s]),
                 [DB EXCEPT !.categories[pc[s].cid] =
                    [@ EXCEPT !.threadCount = pc[s].threadResult,
                              !.postCount = pc[s].postResult]],
                 now)

(* deletePost: db.select().from(posts) *)
SelectPost(s) ==
    /\ pc[s].at = "selectPost"
    /\ Statement(s, IF pc[s].pid \in DOMAIN posts
                    THEN [at |-> "deletePostRow", route |-> pc[s].route,
                          author |-> pc[s].author, pid |-> pc[s].pid,
                          tid |-> posts[pc[s].pid].threadId]
                    ELSE Return(pc[s]),
                 DB, now)

(* deletePost: db.delete(posts) *)
DeletePostRow(s) ==
    /\ pc[s].at = "deletePostRow"
    /\ Statement(s, [pc[s] EXCEPT !.at = "decrementReplyCount"],
                 removePost(DB, pc[s].pid), now)

(* deletePost: db.update(threads) replyCount - 1 *)
DecrementReplyCount(s) ==
    /\ pc[s].at = "decrementReplyCount"
    /\ Statement(s, [pc[s] EXCEPT !.at = "selectThread"],
                 decrementReplyCount(DB, pc[s].tid), now)

(* DELETE /api/posts/:id: createModerationLog and the response *)
LogDeletePost(s) ==
    /\ pc[s].at = "createModerationLog"
    /\ Statement(s, [at |-> "idle"],
                 createModerationLog(DB, pc[s].author, NULL, "delete_post"), now)

(* deleteThread: this.getThread(id) *)
GetThreadRow(s) ==
    /\ pc[s].at = "getThread"
    /\ Statement(s, IF pc[s].tid \in DOMAIN threads
                    THEN [at |-> "deleteThreadRow", route |-> pc[s].route,
                          tid |-> pc[s].tid,
                          cid |-> threads[pc[s].tid].categoryId]
                    ELSE [at |-> "idle"],
                 DB, now)

(* deleteThread: db.delete(threads), posts cascading, then                *)
(* updateCategoryStats                                                    *)
DeleteThreadRow(s) ==
    /\ pc[s].at = "deleteThreadRow"
    /\ Statement(s, [at |-> "countThreads", route |-> pc[s].route,
                     cid |-> pc[s].cid],
                 removeThread(DB, pc[s].tid), now)

(* A createPost that stops between two of its statements: no transaction *)
(* wraps them, so what was written stays and the rest never runs.         *)
Abandon(s) ==
    /\ pc[s].at # "idle"
    /\ pc[s].route = "createPost"
    /\ pc' = [pc EXCEPT ![s] = [at |-> "idle"]]
    /\ UNCHANGED <<store, sessions, now>>

(* GET /api/threads/:id, one step per await.  GetThreadStart runs the     *)
(* middleware, getThread and the private check.                           *)
GetThreadStart(s, hdr, tid) ==
    /\ Idle(s)
    /\ \E t \in generateToken(sessions[s], hdr) :
        LET sess == csrfIssue(sessions[s], t)
            early == Handle(DB, sessions[s], now, hdr, t,
                            [op |-> "getThread", tid |-> tid])
        IN IF \/ checkBanned(DB, sessions[s])
              \/ tid \notin DOMAIN threads
              \/ PrivateDenied(DB, sess, threads[tid].categoryId)
           THEN Apply(s, early)
           ELSE /\ sessions' = [sessions EXCEPT ![s] = sess]
                /\ pc' = [pc EXCEPT ![s] = [at |-> "incrementViewCount",
                                            tid |-> tid]]
                /\ UNCHANGED <<store, now>>

(* await storage.incrementViewCount(threadId), then the response.         *)
GetThreadIncrement(s) ==
    /\ pc[s].at = "incrementViewCount"
    /\ pc' = [pc EXCEPT ![s] = [at |-> "idle"]]
    /\ \E d \in {incrementViewCount(DB, pc[s].tid)} : WithinBounds(d) /\ Commit(d)
    /\ UNCHANGED <<sessions, now>>

(* POST /api/auth/register, one step per await.  RegisterStart runs the   *)
(* middleware and registerSchema.parse.                                   *)
RegisterStart(s, hdr, name, mail, valid) ==
    /\ Idle(s)
    /\ \E t \in generateToken(sessions[s], hdr) :
        LET sess == csrfIssue(sessions[s], t)
            early == Handle(DB, sessions[s], now, hdr, t,
                            [op |-> "register", name |-> name, mail |-> mail,
                             valid |-> valid])
        IN IF \/ checkBanned(DB, sessions[s])
              \/ ~csrfProtection(sess, "POST", hdr)
              \/ ~valid
           THEN Apply(s, early)
           ELSE /\ sessions' = [sessions EXCEPT ![s] = sess]
                /\ pc' = [pc EXCEPT ![s] = [at |-> "readEmail", name |-> name,
                                            mail |-> mail]]
                /\ UNCHANGED <<store, now>>

(* await storage.getUserByEmail(data.email), answered 400 when found.     *)
RegisterReadEmail(s) ==
    /\ pc[s].at = "readEmail"
    /\ pc' = [pc EXCEPT ![s] =
                IF getUserByEmail(DB, pc[s].mail) # NULL THEN [at |-> "idle"]
                ELSE [at |-> "readUsername", name |-> pc[s].name,
                      mail |-> pc[s].mail]]
    /\ UNCHANGED <<store, sessions, now>>

(* await storage.getUserByUsername(data.username), answered 400 when      *)
(* found; then await bcrypt.hash.                                         *)
RegisterReadUsername(s) ==
    /\ pc[s].at = "readUsername"
    /\ pc' = [pc EXCEPT ![s] =
                IF getUserByUsername(DB, pc[s].name) # NULL THEN [at |-> "idle"]
                ELSE [at |-> "createUser", name |-> pc[s].name,
                      mail |-> pc[s].mail]]
    /\ UNCHANGED <<store, sessions, now>>

(* await storage.createUser, then the session binding and the response.   *)
RegisterInsert(s) ==
    /\ pc[s].at = "createUser"
    /\ pc' = [pc EXCEPT ![s] = [at |-> "idle"]]
    /\ \E out \in {registerInsert(DB, sessions[s], now, pc[s].name, pc[s].mail)} :
          /\ WithinBounds(out.db)
          /\ Commit(out.db)
          /\ sessions' = [sessions EXCEPT ![s] = out.sess]
          /\ now' = out.now

(* ---------------------------- specifications --------------------------- *)
(* The header a request carries.  Headers: anything a client can send.     *)
(* ClientHeader: what apiRequest of the web client sends, the token the    *)
(* session holds (none before the first response).                        *)
ClientHeader(s) == {sessions[s].csrfToken}

(* Every request of every session, any header.                            *)
Next ==
    \/ \E s \in Sessions, hdr \in Headers : GetCsrfToken(s, hdr)
    \/ \E s \in Sessions, hdr \in Headers, name \in Usernames, mail \in Emails,
          valid \in BOOLEAN : Register(s, hdr, name, mail, valid)
    \/ \E s \in Sessions, hdr \in Headers, mail \in Emails, pw \in BOOLEAN :
          Login(s, hdr, mail, pw)
    \/ \E s \in Sessions, hdr \in Headers : Logout(s, hdr)
    \/ \E s \in Sessions, hdr \in Headers, cid \in CategoryIdInputs :
          GetCategory(s, hdr, cid)
    \/ \E s \in Sessions, hdr \in Headers, cid \in CategoryIdInputs :
          GetCategoryThreads(s, hdr, cid)
    \/ \E s \in Sessions, hdr \in Headers, tid \in ThreadIdInputs :
          GetThread(s, hdr, tid)
    \/ \E s \in Sessions, hdr \in Headers, tid \in ThreadIdInputs :
          GetThreadPosts(s, hdr, tid)
    \/ \E s \in Sessions, hdr \in Headers, cid \in CategoryIdInputs,
          wf \in BOOLEAN : CreateThread(s, hdr, cid, wf)
    \/ \E s \in Sessions, hdr \in Headers, tid \in ThreadIdInputs,
          c \in BOOLEAN : CreatePost(s, hdr, tid, c)
    \/ \E s \in Sessions, hdr \in Headers, pid \in PostIdInputs :
          DeletePost(s, hdr, pid)
    \/ \E tid \in ThreadIdInputs : DeleteThread(tid)
    \/ \E tid \in ThreadIdInputs, locked \in BOOLEAN : LockThread(tid, locked)
    \/ \E s \in Sessions, hdr \in Headers, r \in Reasons : SubmitInvite(s, hdr, r)
    \/ \E s \in Sessions, hdr \in Headers, id \in InviteIdInputs,
          st \in StatusInputs : DecideInvite(s, hdr, id, st)
    \/ \E s \in Sessions, hdr \in Headers, uid \in UserIdInputs,
          r \in RoleInputs : SetRole(s, hdr, uid, r)
    \/ \E s \in Sessions, hdr \in Headers, uid \in UserIdInputs :
          BanUser(s, hdr, uid)
    \/ \E s \in Sessions, hdr \in Headers : GetModerationLogs(s, hdr)

Spec == Init /\ [][Next]_vars

(* The content operations, requests of the administrator's web client.    *)
NextContent ==
    \/ \E s \in {1} : \E hdr \in ClientHeader(s) : GetCsrfToken(s, hdr)
    \/ \E s \in {1} : \E hdr \in ClientHeader(s), mail \in {"admin@x"},
          pw \in BOOLEAN : Login(s, hdr, mail, pw)
    \/ \E s \in {1} : \E hdr \in ClientHeader(s), cid \in CategoryIdInputs,
          wf \in BOOLEAN : CreateThread(s, hdr, cid, wf)
    \/ \E s \in {1} : \E hdr \in ClientHeader(s), tid \in ThreadIdInputs,
          c \in BOOLEAN : CreatePost(s, hdr, tid, c)
    \/ \E s \in {1} : \E hdr \in ClientHeader(s), pid \in PostIdInputs :
          DeletePost(s, hdr, pid)
    \/ \E tid \in ThreadIdInputs : DeleteThread(tid)

SpecContent == Init /\ [][NextContent]_vars

(* The private-access workflow and the administration of users, requests  *)
(* of one web client.                                                     *)
NextInvite ==
    \/ \E s \in {1} : \E hdr \in ClientHeader(s) : GetCsrfToken(s, hdr)
    \/ \E s \in {1} : \E hdr \in ClientHeader(s), name \in Usernames,
          mail \in Emails, valid \in BOOLEAN : Register(s, hdr, name, mail, valid)
    \/ \E s \in {1} : \E hdr \in ClientHeader(s), mail \in Emails,
          pw \in BOOLEAN : Login(s, hdr, mail, pw)
    \/ \E s \in {1} : \E hdr \in ClientHeader(s), r \in Reasons :
          SubmitInvite(s, hdr, r)
    \/ \E s \in {1} : \E hdr \in ClientHeader(s), id \in InviteIdInputs,
          st \in StatusInputs : DecideInvite(s, hdr, id, st)
    \/ \E s \in {1} : \E hdr \in ClientHeader(s), uid \in UserIdInputs,
          r \in RoleInputs : SetRole(s, hdr, uid, r)
    \/ \E s \in {1} : \E hdr \in ClientHeader(s), uid \in UserIdInputs :
          BanUser(s, hdr, uid)

SpecInvite == Init /\ [][NextInvite]_vars

(* Sessions, bans and the anti-forgery token: every session of the seeded *)
(* users, any header.                                                     *)
NextSession ==
    \/ \E s \in Sessions, hdr \in Headers : GetCsrfToken(s, hdr)
    \/ \E s \in Sessions, hdr \in Headers, mail \in Emails, pw \in BOOLEAN :
          Login(s, hdr, mail, pw)
    \/ \E s \in Sessions, hdr \in Headers : Logout(s, hdr)
    \/ \E s \in Sessions, hdr \in Headers, uid \in UserIdInputs :
          BanUser(s, hdr, uid)

SpecSession == Init /\ [][NextSession]_vars

(* Who may write where: one web client that registers a user, logs in as  *)
(* the administrator or as that user, changes the user's role and writes  *)
(* threads; threads are locked and unlocked on the storage.               *)
NextAccess ==
    \/ \E s \in {1} : \E hdr \in ClientHeader(s) : GetCsrfToken(s, hdr)
    \/ \E s \in {1} : \E hdr \in ClientHeader(s), name \in {"user"},
          mail \in {"u@x"}, valid \in {TRUE} : Register(s, hdr, name, mail, valid)
    \/ \E s \in {1} : \E hdr \in ClientHeader(s), mail \in {"admin@x", "u@x"},
          pw \in {TRUE} : Login(s, hdr, mail, pw)
    \/ \E s \in {1} : \E hdr \in ClientHeader(s), uid \in {3},
          r \in Roles : SetRole(s, hdr, uid, r)
    \/ \E s \in {1} : \E hdr \in ClientHeader(s), uid \in {3} :
          BanUser(s, hdr, uid)
    \/ \E s \in {1} : \E hdr \in ClientHeader(s), cid \in CategoryIds,
          wf \in {TRUE} : CreateThread(s, hdr, cid, wf)
    \/ \E tid \in ThreadIdInputs, locked \in BOOLEAN : LockThread(tid, locked)

SpecAccess == Init /\ [][NextAccess]_vars

(* Two web clients whose POST /api/private-invites requests interleave    *)
(* between the awaited storage calls.                                     *)
NextRace ==
    \/ \E s \in Sessions : \E hdr \in ClientHeader(s) : GetCsrfToken(s, hdr)
    \/ \E s \in Sessions : \E hdr \in ClientHeader(s), name \in Usernames,
          mail \in Emails, valid \in BOOLEAN : Register(s, hdr, name, mail, valid)
    \/ \E s \in Sessions : \E hdr \in ClientHeader(s), mail \in Emails,
          pw \in BOOLEAN : Login(s, hdr, mail, pw)
    \/ \E s \in Sessions : \E hdr \in ClientHeader(s), r \in Reasons :
          SubmitStart(s, hdr, r)
    \/ \E s \in Sessions : SubmitRead(s)
    \/ \E s \in Sessions : SubmitInsert(s)
    \/ \E s \in Sessions : \E hdr \in ClientHeader(s), id \in InviteIdInputs,
          st \in StatusInputs : DecideInvite(s, hdr, id, st)

SpecRace == Init /\ [][NextRace]_vars

(* Content writes of two clients, the administrator and the moderator,   *)
(* interleaved at their persistence statements.  Threads are created by  *)
(* the administrator; storage.deleteThread runs in the second task slot.  *)
NextStorage ==
    \/ \E s \in {1, 2} : \E hdr \in ClientHeader(s) : GetCsrfToken(s, hdr)
    \/ \E hdr \in ClientHeader(1) : Login(1, hdr, "admin@x", TRUE)
    \/ \E hdr \in ClientHeader(2) : Login(2, hdr, "mod@x", TRUE)
    \/ \E hdr \in ClientHeader(1) : CreateThreadStart(1, hdr, 1, TRUE)
    \/ \E s \in {1, 2} : \E hdr \in ClientHeader(s), tid \in {1} :
          CreatePostStart(s, hdr, tid, TRUE)
    \/ \E s \in {1, 2} : \E hdr \in ClientHeader(s), pid \in {1} :
          DeletePostStart(s, hdr, pid)
    \/ \E tid \in {1} : DeleteThreadStart(2, tid)
    \/ \E s \in {1, 2} : InsertThread(s)
    \/ \E s \in {1, 2} : BumpThreadCount(s)
    \/ \E s \in {1, 2} : InsertPost(s)
    \/ \E s \in {1, 2} : TouchThread(s)
    \/ \E s \in {1, 2} : BumpPostCount(s)
    \/ \E s \in {1, 2} : SelectThread(s)
    \/ \E s \in {1, 2} : SelectThreadCount(s)
    \/ \E s \in {1, 2} : SelectPostCount(s)
    \/ \E s \in {1, 2} : UpdateCategory(s)
    \/ \E s \in {1, 2} : SelectPost(s)
    \/ \E s \in {1, 2} : DeletePostRow(s)
    \/ \E s \in {1, 2} : DecrementReplyCount(s)
    \/ \E s \in {1, 2} : LogDeletePost(s)
    \/ \E s \in {1, 2} : GetThreadRow(s)
    \/ \E s \in {1, 2} : DeleteThreadRow(s)

SpecStorage == Init /\ [][NextStorage]_vars

(* Replies of two clients, the administrator and the moderator, written  *)
(* statement by statement, any of which may be the last one that runs.    *)
NextAbandon ==
    \/ \E s \in {1, 2} : \E hdr \in ClientHeader(s) : GetCsrfToken(s, hdr)
    \/ \E hdr \in ClientHeader(1) : Login(1, hdr, "admin@x", TRUE)
    \/ \E hdr \in ClientHeader(2) : Login(2, hdr, "mod@x", TRUE)
    \/ \E hdr \in ClientHeader(1) : CreateThread(1, hdr, 1, TRUE)
    \/ \E s \in {1, 2} : \E hdr \in ClientHeader(s), tid \in {1} :
          CreatePostStart(s, hdr, tid, TRUE)
    \/ \E s \in {1, 2} : InsertPost(s)
    \/ \E s \in {1, 2} : TouchThread(s)
    \/ \E s \in {1, 2} : BumpPostCount(s)
    \/ \E s \in {1, 2} : SelectThread(s)
    \/ \E s \in {1, 2} : SelectThreadCount(s)
    \/ \E s \in {1, 2} : SelectPostCount(s)
    \/ \E s \in {1, 2} : UpdateCategory(s)
    \/ \E s \in {1, 2} : Abandon(s)

SpecAbandon == Init /\ [][NextAbandon]_vars

(* The moderator writes threads and replies statement by statement while *)
(* the administrator, on another session, bans accounts.                  *)
NextBan ==
    \/ \E s \in {1, 2} : \E hdr \in ClientHeader(s) : GetCsrfToken(s, hdr)
    \/ \E hdr \in ClientHeader(1) : Login(1, hdr, "admin@x", TRUE)
    \/ \E hdr \in ClientHeader(2) : Login(2, hdr, "mod@x", TRUE)
    \/ \E hdr \in ClientHeader(1), uid \in {2, 3} : BanUser(1, hdr, uid)
    \/ \E hdr \in ClientHeader(2) : CreateThreadStart(2, hdr, 1, TRUE)
    \/ \E hdr \in ClientHeader(2), tid \in {1} : CreatePostStart(2, hdr, tid, TRUE)
    \/ InsertThread(2)
    \/ BumpThreadCount(2)
    \/ InsertPost(2)
    \/ TouchThread(2)
    \/ BumpPostCount(2)
    \/ SelectThread(2)
    \/ SelectThreadCount(2)
    \/ SelectPostCount(2)
    \/ UpdateCategory(2)

SpecBan == Init /\ [][NextBan]_vars

(* Thread reads of two clients, one of them the administrator and the    *)
(* other anonymous, interleaved at their awaits, next to the              *)
(* administrator's writes in the public category and thread deletions.    *)
NextViews ==
    \/ \E s \in {1} : \E hdr \in ClientHeader(s) : GetCsrfToken(s, hdr)
    \/ \E s \in {1} : \E hdr \in ClientHeader(s), mail \in {"admin@x"},
          pw \in {TRUE} : Login(s, hdr, mail, pw)
    \/ \E s \in {1} : \E hdr \in ClientHeader(s), cid \in {1},
          wf \in {TRUE} : CreateThread(s, hdr, cid, wf)
    \/ \E s \in {1} : \E hdr \in ClientHeader(s), tid \in {1},
          c \in {TRUE} : CreatePost(s, hdr, tid, c)
    \/ \E s \in {1, 2} : \E hdr \in ClientHeader(s), tid \in ThreadIdInputs :
          GetThreadStart(s, hdr, tid)
    \/ \E s \in {1, 2} : GetThreadIncrement(s)
    \/ \E tid \in ThreadIdInputs : DeleteThread(tid)

SpecViews == Init /\ [][NextViews]_vars

(* Registrations of several clients, interleaved at their awaits.         *)
NextRegister ==
    \/ \E s \in Sessions : \E hdr \in ClientHeader(s) : GetCsrfToken(s, hdr)
    \/ \E s \in Sessions : \E hdr \in ClientHeader(s), name \in Usernames,
          mail \in Emails, valid \in BOOLEAN :
              RegisterStart(s, hdr, name, mail, valid)
    \/ \E s \in Sessions : RegisterReadEmail(s)
    \/ \E s \in Sessions : RegisterReadUsername(s)
    \/ \E s \in Sessions : RegisterInsert(s)

SpecRegister == Init /\ [][NextRegister]_vars

(* ============================== claims ================================= *)
ThreadsIn(c) == {t \in DOMAIN threads : threads[t].categoryId = c}

PostsIn(t) == {p \in DOMAIN posts : posts[p].threadId = t}

PostsOfCategory(c) == {p \in DOMAIN posts : posts[p].threadId \in ThreadsIn(c)}

(* C1: at rest after any sequence of completed createThread, createPost,  *)
(* deletePost and deleteThread calls, every category's threadCount is the *)
(* number of existing threads in it and its postCount the number of       *)
(* existing posts whose thread is in it.                                  *)
C1_CategoryCounters ==
    \A c \in CategoryIds :
        /\ categories[c].threadCount = Cardinality(ThreadsIn(c))
        /\ categories[c].postCount = Cardinality(PostsOfCategory(c))

(* A thread and a post were deleted, a thread with one post remains.      *)
C1_Witness ==
    /\ nextThreadId = 3
    /\ nextPostId = 3
    /\ Cardinality(DOMAIN threads) = 1
    /\ Cardinality(DOMAIN posts) = 1
    /\ \E i \in DOMAIN modLogs : modLogs[i].action = "delete_post"
    /\ \E c \in CategoryIds :
          categories[c].threadCount = 1 /\ categories[c].postCount = 1

(* C2: at rest after any sequence of completed createPost and deletePost  *)
(* calls, every existing thread's replyCount is the number of existing    *)
(* posts in that thread.                                                  *)
C2_ReplyCount ==
    \A t \in DOMAIN threads : threads[t].replyCount = Cardinality(PostsIn(t))

(* Two posts were created in the only thread and one of them deleted.     *)
C2_Witness ==
    /\ nextThreadId = 2
    /\ nextPostId = 3
    /\ 1 \in DOMAIN threads
    /\ threads[1].replyCount = 1
    /\ Cardinality(PostsIn(1)) = 1

LatestPost(t) ==
    CHOOSE p \in PostsIn(t) :
        \A q \in PostsIn(t) : posts[q].createdAt <= posts[p].createdAt

(* C3: every thread's lastReplyBy is the author of the chronologically    *)
(* latest post still existing in it and lastReplyAt that post's time, and *)
(* both are null when the thread has no posts.                            *)
C3_LastReply ==
    \A t \in DOMAIN threads :
        IF PostsIn(t) = {}
        THEN threads[t].lastReplyById = NULL /\ threads[t].lastReplyAt = NULL
        ELSE /\ threads[t].lastReplyById = posts[LatestPost(t)].authorId
             /\ threads[t].lastReplyAt = posts[LatestPost(t)].createdAt

(* C4: every user's threadCount is the number of existing threads they    *)
(* authored and their postCount the number of existing posts they         *)
(* authored.                                                              *)
C4_UserCounters ==
    \A u \in DOMAIN users :
        /\ users[u].threadCount =
              Cardinality({t \in DOMAIN threads : threads[t].authorId = u})
        /\ users[u].postCount =
              Cardinality({p \in DOMAIN posts : posts[p].authorId = u})

PendingOf(u) ==
    {i \in DOMAIN invites : invites[i].userId = u /\ invites[i].status = "pending"}

(* C5: in every reachable state, also when two submit requests of one     *)
(* user interleave between reading the latest request and inserting, at   *)
(* most one pending request exists per user.                              *)
C5_OnePending ==
    \A u \in DOMAIN users : Cardinality(PendingOf(u)) <= 1

(* The requests a moderator's session can make that reach the handler:    *)
(* the user is not banned and the header carries the session's token.     *)
Authorized(s, hdr, roles) ==
    /\ sessions[s].userId # NULL
    /\ ~users[sessions[s].userId].isBanned
    /\ users[sessions[s].userId].role \in roles
    /\ hdr # NULL
    /\ hdr = sessions[s].csrfToken

Decide(s, hdr, id, st) ==
    Handle(DB, sessions[s], now, hdr, hdr,
           [op |-> "decideInvite", id |-> id, status |-> st])

(* C6: a decide call on a request that is already approved or rejected    *)
(* fails NotFound and changes nothing: the request, every user's grant    *)
(* and the moderation log stay as they were.                              *)
C6_DecideOnce ==
    \A s \in Sessions, hdr \in Headers, id \in DOMAIN invites,
       st \in InviteStatuses :
        (Authorized(s, hdr, {"admin", "moderator"})
            /\ invites[id].status # "pending")
        => /\ Decide(s, hdr, id, st).kind = "NotFound"
           /\ Decide(s, hdr, id, st).db = DB

Outcomes(s, hdr, r) ==
    {Handle(DB, sessions[s], now, hdr, t, r) :
        t \in IF sessions[s].csrfToken = NULL THEN Tokens \ {hdr}
              ELSE {sessions[s].csrfToken}}

(* The step sets request i to approved: status and review time are the    *)
(* ones a decision made in this step writes.                              *)
ApprovedNow(i) ==
    /\ now' = now + 1
    /\ invites'[i].status = "approved"
    /\ invites'[i].reviewedAt = now'

C8_DecideEffect ==
    \A s \in Sessions, hdr \in Headers, id \in DOMAIN invites,
       st \in InviteStatuses :
        LET out == Decide(s, hdr, id, st)
            requester == invites[id].userId
        IN (invites[id].status = "pending" /\ out.kind = "OK")
           => /\ out.db.invites[id].status = st
              /\ out.db.invites[id].reviewedById = sessions[s].userId
              /\ st = "approved" => out.db.users[requester].hasPrivateAccess
              /\ st = "rejected" =>
                    out.db.users[requester].hasPrivateAccess
                        = users[requester].hasPrivateAccess
              /\ out.db.modLogs = Append(modLogs,
                    [moderatorId |-> sessions[s].userId,
                     targetUserId |-> requester,
                     action |-> IF st = "approved" THEN "approve_invite"
                                ELSE "reject_invite"])

(* A request was rejected and another approved, each logged.              *)
C8_Witness ==
    /\ \E i \in DOMAIN invites : invites[i].status = "rejected"
    /\ \E i \in DOMAIN invites :
          /\ invites[i].status = "approved"
          /\ invites[i].reviewedById # NULL
          /\ users[invites[i].userId].hasPrivateAccess
    /\ Len(modLogs) = 2
    /\ modLogs[2].action = "approve_invite"

BannedSession(s) ==
    /\ sessions[s].userId # NULL
    /\ users[sessions[s].userId].isBanned

(* C9: a request of any kind presented with the session of a banned user  *)
(* is answered Forbidden, performs no business operation and destroys the *)
(* session, which then resolves to no user.                               *)
C9_BannedSessionDestroyed ==
    \A s \in Sessions :
        BannedSession(s) =>
            \A hdr \in Headers, r \in Requests :
                \A out \in Outcomes(s, hdr, r) :
                    /\ out.kind = "Forbidden"
                    /\ out.db = DB
                    /\ out.sess.userId = NULL

(* A user was banned by another session while holding a session.          *)
C9_Witness ==
    \E s \in Sessions :
        /\ BannedSession(s)
        /\ \E i \in DOMAIN modLogs :
              /\ modLogs[i].action = "ban_user"
              /\ modLogs[i].targetUserId = sessions[s].userId
              /\ modLogs[i].moderatorId # sessions[s].userId

StateChanging == {r \in Requests : Method(r) \in {"POST", "PATCH", "DELETE"}}

BadToken(s, hdr) == hdr = NULL \/ hdr # sessions[s].csrfToken

(* C10 as stated: every state-changing request whose header is absent or  *)
(* differs from the session's token fails ForbiddenCsrf, whatever the     *)
(* session's user, and leaves the database unchanged.                     *)
C10_Original ==
    \A s \in Sessions, hdr \in Headers :
        BadToken(s, hdr) =>
            \A r \in StateChanging :
                \A out \in Outcomes(s, hdr, r) :
                    out.kind = "ForbiddenCsrf" /\ out.db = DB

(* C10 amended: such a request fails ForbiddenCsrf unless the session's   *)
(* user is banned, and then it fails Forbidden and the session is         *)
(* destroyed; in both cases the database is unchanged.                    *)
C10_CsrfRejects ==
    \A s \in Sessions, hdr \in Headers :
        BadToken(s, hdr) =>
            \A r \in StateChanging :
                \A out \in Outcomes(s, hdr, r) :
                    /\ out.db = DB
                    /\ IF BannedSession(s)
                       THEN out.kind = "Forbidden" /\ out.sess = NoSession
                       ELSE out.kind = "ForbiddenCsrf"

(* An administrator is logged in on a session that holds a token, and a   *)
(* banned user still holds a session with a token.                        *)
C10_Witness ==
    /\ \E s \in Sessions :
          /\ sessions[s].userId # NULL
          /\ users[sessions[s].userId].role = "admin"
          /\ ~users[sessions[s].userId].isBanned
          /\ sessions[s].csrfToken # NULL
    /\ \E s \in Sessions : BannedSession(s) /\ sessions[s].csrfToken # NULL

SafeReads == {r \in Requests : Method(r) \in SafeMethods}

(* The token handling C11 states for one outcome of a safe read.          *)
TokenKept(s, out) ==
    /\ out.kind # "ForbiddenCsrf"
    /\ out.sess.csrfToken # NULL
    /\ sessions[s].csrfToken # NULL => out.sess.csrfToken = sessions[s].csrfToken

(* C11 as stated: a safe read is never rejected for a missing or wrong    *)
(* token; a session without token is issued one, which is stored, and a   *)
(* session with a token keeps it unchanged.                               *)
C11_Original ==
    \A s \in Sessions, hdr \in Headers, r \in SafeReads :
        \A out \in Outcomes(s, hdr, r) : TokenKept(s, out)

(* C11 amended: the same for every safe read of a session whose user is   *)
(* not banned, and GET, HEAD and OPTIONS pass csrfProtection with any     *)
(* header; the safe read of a banned user's session is answered Forbidden *)
(* and the session is destroyed with its token.                           *)
C11_SafeReads ==
    \A s \in Sessions, hdr \in Headers :
        /\ \A r \in SafeReads :
              \A out \in Outcomes(s, hdr, r) :
                  IF BannedSession(s)
                  THEN out.kind = "Forbidden" /\ out.sess = NoSession
                  ELSE TokenKept(s, out)
        /\ \A m \in SafeMethods, t \in Tokens :
              csrfProtection(csrfIssue(sessions[s], t), m, hdr)

(* One session holds a token without being logged in, another holds none. *)
C11_Witness ==
    /\ \E s \in Sessions :
          sessions[s].csrfToken # NULL /\ sessions[s].userId = NULL
    /\ \E s \in Sessions : sessions[s].csrfToken = NULL

(* The step destroys session x: it held a token and is left without user  *)
(* by a step that changed it (logout or ban detection).                   *)
Destroyed(x) ==
    /\ sessions[x].csrfToken # NULL
    /\ sessions'[x] # sessions[x]
    /\ sessions'[x].userId = NULL

UserBanned(d, sess) == sess.userId # NULL /\ d.users[sess.userId].isBanned

(* Every state-changing request that presents token o with session sess,  *)
(* which does not hold o, is refused and changes nothing; exempting says  *)
(* whether the refusal of a banned user's session may be Forbidden.       *)
Refused(d, sess, clock, o, exempting) ==
    sess.csrfToken # o =>
        \A r \in StateChanging : \A t \in generateToken(sess, o) :
            LET out == Handle(d, sess, clock, o, t, r)
            IN /\ out.db = d
               /\ out.kind = IF exempting /\ UserBanned(d, sess) THEN "Forbidden"
                             ELSE "ForbiddenCsrf"

(* C12 as stated: once a session is destroyed its token is bound to it no *)
(* more, and a state-changing request presenting the old token with any   *)
(* session that was not issued the same value fails ForbiddenCsrf, in the *)
(* state the destruction leaves and in every later state.                 *)
C12_Original ==
    /\ [][\A x \in Sessions :
             Destroyed(x) => sessions'[x].csrfToken # sessions[x].csrfToken
         ]_vars
    /\ [](\A s2 \in Sessions, o \in Tokens :
              Refused(DB, sessions[s2], now, o, FALSE))

(* C12 amended: the same, except that the request fails Forbidden when    *)
(* the session it carries belongs to a banned user.                       *)
C12_TokenInvalidated ==
    /\ [][\A x \in Sessions :
             Destroyed(x) => sessions'[x].csrfToken # sessions[x].csrfToken
         ]_vars
    /\ [](\A s2 \in Sessions, o \in Tokens :
              Refused(DB, sessions[s2], now, o, TRUE))

(* The administrator banned themself while logged in and no session       *)
(* resolves to them any more: their session was destroyed.                *)
C12_Witness ==
    /\ \E i \in DOMAIN modLogs :
          /\ modLogs[i].action = "ban_user"
          /\ modLogs[i].moderatorId = modLogs[i].targetUserId
    /\ \A s \in Sessions : sessions[s].userId # 1
    /\ \E s \in Sessions : sessions[s].csrfToken # NULL

ContentWrites == {r \in Requests : r.op \in {"createThread", "createPost"}}

Registrations == {r \in Requests : r.op = "register"}

HoldsToken(s, hdr) == hdr # NULL /\ hdr = sessions[s].csrfToken

(* C13: every newly registered user gets the role new_user, and a         *)
(* createThread or createPost of a session whose user has that role       *)
(* changes nothing in the database (no thread, no post, no counter) and   *)
(* fails Forbidden when it carries the session's token.                   *)
C13_NewUserCannotWrite ==
    \A s \in Sessions :
        /\ \A hdr \in Headers :
              HoldsToken(s, hdr) =>
                  \A r \in Registrations : \A out \in Outcomes(s, hdr, r) :
                      out.kind = "Created" =>
                          out.db.users[Len(out.db.users)].role = "new_user"
        /\ (sessions[s].userId # NULL
               /\ users[sessions[s].userId].role = "new_user")
            => \A hdr \in Headers, r \in ContentWrites :
                  \A out \in Outcomes(s, hdr, r) :
                      /\ out.db = DB
                      /\ HoldsToken(s, hdr) => out.kind = "Forbidden"

(* A user with role new_user is logged in, holds a token, and a thread in *)
(* the public category exists.                                            *)
C13_Witness ==
    /\ \E s \in Sessions :
          /\ sessions[s].userId # NULL
          /\ users[sessions[s].userId].role = "new_user"
          /\ sessions[s].csrfToken # NULL
    /\ \E t \in DOMAIN threads : ~categories[threads[t].categoryId].isPrivate

PrivateThreads == {t \in DOMAIN threads : categories[threads[t].categoryId].isPrivate}

(* The requests that read from or write into a private category.          *)
IntoPrivate ==
    {r \in Requests :
        \/ /\ r.op \in {"getCategory", "getCategoryThreads", "createThread"}
           /\ r.cid \in DOMAIN categories
           /\ categories[r.cid].isPrivate
        \/ /\ r.op \in {"getThread", "getThreadPosts", "createPost"}
           /\ r.tid \in PrivateThreads}

Ungranted(s) ==
    \/ sessions[s].userId = NULL
    \/ ~users[sessions[s].userId].hasPrivateAccess

(* The request is not stopped by csrfProtection.                          *)
PassesCsrf(s, hdr, r) == Method(r) \in SafeMethods \/ HoldsToken(s, hdr)

(* C14 as stated: every read of a private category, its thread list, one  *)
(* of its threads or a thread's posts, and every createThread or          *)
(* createPost into it, by an anonymous caller or a user without           *)
(* hasPrivateAccess fails Forbidden and changes nothing.                  *)
C14_Original ==
    \A s \in Sessions :
        Ungranted(s) =>
            \A hdr \in Headers, r \in IntoPrivate :
                PassesCsrf(s, hdr, r) =>
                    \A out \in Outcomes(s, hdr, r) :
                        out.kind = "Forbidden" /\ out.db = DB

(* What the code answers to such a request.                               *)
PrivateRefusal(s, r) ==
    IF BannedSession(s) THEN "Forbidden"
    ELSE IF r.op \in {"createThread", "createPost"} /\ sessions[s].userId = NULL
         THEN "Unauthenticated"
    ELSE IF /\ r.op = "createPost"
            /\ users[sessions[s].userId].role # "new_user"
            /\ threads[r.tid].isLocked
         THEN "Locked"
    ELSE "Forbidden"

(* C14 amended: such a request changes nothing, the viewCount included;   *)
(* the reads fail Forbidden; createThread and createPost fail             *)
(* Unauthenticated for an anonymous caller, Locked for a createPost on a  *)
(* locked thread by a user who is not a new_user, Forbidden otherwise.    *)
C14_PrivateClosed ==
    \A s \in Sessions :
        Ungranted(s) =>
            \A hdr \in Headers, r \in IntoPrivate :
                \A out \in Outcomes(s, hdr, r) :
                    /\ out.db = DB
                    /\ PassesCsrf(s, hdr, r) => out.kind = PrivateRefusal(s, r)

(* A moderator without the grant is logged in and holds a token, and the  *)
(* private category has a locked thread and an unlocked one.              *)
C14_Witness ==
    /\ \E s \in Sessions :
          /\ sessions[s].userId # NULL
          /\ users[sessions[s].userId].role = "moderator"
          /\ ~users[sessions[s].userId].hasPrivateAccess
          /\ sessions[s].csrfToken # NULL
    /\ \E t \in PrivateThreads : threads[t].isLocked
    /\ \E t \in PrivateThreads : ~threads[t].isLocked

LockedThreads == {t \in DOMAIN threads : threads[t].isLocked}

PostsOnLocked == {r \in Requests : r.op = "createPost" /\ r.tid \in LockedThreads}

(* C15 as stated: createPost on a locked thread fails Locked for every    *)
(* caller and leaves the thread's posts, replyCount and lastReply as they *)
(* were.                                                                  *)
C15_Original ==
    \A s \in Sessions, hdr \in Headers :
        HoldsToken(s, hdr) =>
            \A r \in PostsOnLocked : \A out \in Outcomes(s, hdr, r) :
                out.kind = "Locked" /\ out.db = DB

(* What the code answers to a createPost on a locked thread.              *)
LockedRefusal(s) ==
    IF BannedSession(s) THEN "Forbidden"
    ELSE IF sessions[s].userId = NULL THEN "Unauthenticated"
    ELSE IF users[sessions[s].userId].role = "new_user" THEN "Forbidden"
    ELSE "Locked"

(* C15 amended: createPost on a locked thread changes nothing for any     *)
(* caller; it fails Locked for every logged-in member, moderator and      *)
(* administrator, Unauthenticated for an anonymous caller and Forbidden   *)
(* for a new_user or a banned user.                                       *)
C15_LockedRefuses ==
    \A s \in Sessions, hdr \in Headers, r \in PostsOnLocked :
        \A out \in Outcomes(s, hdr, r) :
            /\ out.db = DB
            /\ HoldsToken(s, hdr) => out.kind = LockedRefusal(s)

(* A moderator is logged in, holds a token, and a thread of the public    *)
(* category is locked.                                                    *)
C15_Witness ==
    /\ \E s \in Sessions :
          /\ sessions[s].userId # NULL
          /\ users[sessions[s].userId].role = "moderator"
          /\ ~users[sessions[s].userId].isBanned
          /\ sessions[s].csrfToken # NULL
    /\ \E t \in LockedThreads : ~categories[threads[t].categoryId].isPrivate

(* The roles each privileged route passes to requireRole.                 *)
RequiredRoles(r) ==
    IF r.op \in {"setRole", "banUser"} THEN {"admin"}
    ELSE {"admin", "moderator"}

Privileged ==
    {r \in Requests : r.op \in {"deletePost", "decideInvite",
                                 "getModerationLogs", "setRole", "banUser"}}

(* C16: a deletePost, decide or moderation-log read by a logged-in caller  *)
(* whose persisted role is neither moderator nor admin, and a setRole or   *)
(* banUser by one whose persisted role is not admin, changes nothing in    *)
(* the database (no log entry either) and fails Forbidden; the role is the *)
(* one stored now, so a caller demoted while logged in is refused.         *)
C16_RoleChecked ==
    \A s \in Sessions :
        sessions[s].userId # NULL =>
            \A r \in Privileged :
                users[sessions[s].userId].role \notin RequiredRoles(r) =>
                    \A hdr \in Headers : \A out \in Outcomes(s, hdr, r) :
                        /\ out.db = DB
                        /\ PassesCsrf(s, hdr, r) => out.kind = "Forbidden"

(* A user who changed roles as administrator is still logged in, holds a  *)
(* token, is not banned, and now has a role below moderator.              *)
C16_Witness ==
    \E s \in Sessions :
        /\ sessions[s].userId # NULL
        /\ sessions[s].csrfToken # NULL
        /\ users[sessions[s].userId].role \in {"member", "new_user"}
        /\ ~users[sessions[s].userId].isBanned
        /\ \E i \in DOMAIN modLogs :
              /\ modLogs[i].moderatorId = sessions[s].userId
              /\ modLogs[i].targetUserId = sessions[s].userId

Submits == {r \in Requests : r.op = "submitInvite"}

(* C17: a submit of a logged-in user fails Conflict when the user has the *)
(* grant or a pending request, fails Validation when the justification,   *)
(* surrounding blanks aside, is shorter than 50 characters, creating no   *)
(* request in either case; otherwise it appends exactly one request,      *)
(* pending and owned by the caller.                                       *)
C17_SubmitOutcome ==
    \A s \in Sessions :
        (sessions[s].userId # NULL /\ ~BannedSession(s)) =>
            \A hdr \in Headers :
                HoldsToken(s, hdr) =>
                    \A r \in Submits : \A out \in Outcomes(s, hdr, r) :
                        IF \/ users[sessions[s].userId].hasPrivateAccess
                           \/ PendingOf(sessions[s].userId) # {}
                        THEN out.kind = "Conflict" /\ out.db = DB
                        ELSE IF trimLength(r.reason) < MinReasonLen
                        THEN out.kind = "Validation" /\ out.db = DB
                        ELSE /\ out.kind = "Created"
                             /\ Len(out.db.invites) = Len(invites) + 1
                             /\ SubSeq(out.db.invites, 1, Len(invites)) = invites
                             /\ out.db.invites[Len(invites) + 1].userId =
                                    sessions[s].userId
                             /\ out.db.invites[Len(invites) + 1].status = "pending"
                             /\ [out.db EXCEPT !.invites = invites] = DB

(* The user of session s is logged in, not banned, has no grant and no    *)
(* pending request, and one of their requests was rejected.               *)
RejectedOnly(s) ==
    /\ sessions[s].userId # NULL
    /\ ~BannedSession(s)
    /\ ~users[sessions[s].userId].hasPrivateAccess
    /\ PendingOf(sessions[s].userId) = {}
    /\ \E i \in DOMAIN invites : /\ invites[i].userId = sessions[s].userId
                                 /\ invites[i].status = "rejected"

(* The submit appended one pending request of the session's user and left *)
(* every earlier request, the rejected ones included, as it was.          *)
FreshPending(s, out) ==
    /\ out.kind = "Created"
    /\ Len(out.db.invites) = Len(invites) + 1
    /\ SubSeq(out.db.invites, 1, Len(invites)) = invites
    /\ out.db.invites[Len(invites) + 1].userId = sessions[s].userId
    /\ out.db.invites[Len(invites) + 1].status = "pending"

(* C18 as stated: after a rejection, with no grant and no pending request, *)
(* a submit whose justification has at least 50 characters succeeds with  *)
(* a fresh pending request and the rejected request stays rejected.       *)
C18_Original ==
    \A s \in Sessions :
        RejectedOnly(s) =>
            \A hdr \in Headers :
                HoldsToken(s, hdr) =>
                    \A r \in Submits :
                        r.reason.len >= MinReasonLen =>
                            \A out \in Outcomes(s, hdr, r) : FreshPending(s, out)

(* C18 amended: the same, for a justification that has at least 50        *)
(* characters once leading and trailing blanks are removed.               *)
C18_Resubmit ==
    \A s \in Sessions :
        RejectedOnly(s) =>
            \A hdr \in Headers :
                HoldsToken(s, hdr) =>
                    \A r \in Submits :
                        trimLength(r.reason) >= MinReasonLen =>
                            \A out \in Outcomes(s, hdr, r) : FreshPending(s, out)

(* A user has a rejected request and a pending one submitted after it.    *)
C18_Witness ==
    \E i, j \in DOMAIN invites :
        /\ i < j
        /\ invites[i].userId = invites[j].userId
        /\ invites[i].status = "rejected"
        /\ invites[j].status = "pending"
        /\ invites[i].reviewedAt < invites[j].createdAt

(* C19: the moderation log is append-only: after every step the log      *)
(* starts with the log as it was before the step, entry for entry and in  *)
(* the same order, followed by zero or more new entries.                  *)
C19_LogAppendOnly ==
    [][ /\ Len(modLogs') >= Len(modLogs)
        /\ SubSeq(modLogs', 1, Len(modLogs)) = modLogs ]_vars

(* The log holds two entries by different actions, appended one after the *)
(* other.                                                                 *)
C19_Witness ==
    /\ Len(modLogs) >= 2
    /\ modLogs[1].action # modLogs[2].action

(* C20: a deletePost by a moderator with an id that matches no post fails *)
(* NotFound and changes nothing: no counter and no moderation log entry.  *)
C20_DeleteMissing ==
    \A s \in Sessions :
        ( /\ sessions[s].userId # NULL
          /\ ~BannedSession(s)
          /\ users[sessions[s].userId].role = "moderator" ) =>
            \A hdr \in Headers :
                HoldsToken(s, hdr) =>
                    \A pid \in PostIdInputs \ DOMAIN posts :
                        \A out \in Outcomes(s, hdr,
                                             [op |-> "deletePost", pid |-> pid]) :
                            out.kind = "NotFound" /\ out.db = DB

LogoutRequest == [op |-> "logout"]

(* C21 as stated: a logout presented with an authenticated session always *)
(* succeeds, and afterwards the session resolves to no user.              *)
C21_Original ==
    \A s \in Sessions :
        sessions[s].userId # NULL =>
            \A hdr \in Headers : \A out \in Outcomes(s, hdr, LogoutRequest) :
                out.kind = "OK" /\ out.sess.userId = NULL

(* C21 amended: a logout presented with an authenticated session and that *)
(* session's token leaves the session resolving to no user and changes    *)
(* nothing in the database; it succeeds unless the user is banned, and    *)
(* then it fails Forbidden.                                               *)
C21_LogoutDestroys ==
    \A s \in Sessions :
        sessions[s].userId # NULL =>
            \A hdr \in Headers :
                HoldsToken(s, hdr) =>
                    \A out \in Outcomes(s, hdr, LogoutRequest) :
                        /\ out.kind = IF BannedSession(s) THEN "Forbidden" ELSE "OK"
                        /\ out.sess = NoSession
                        /\ out.db = DB

(* The administrator acted while logged in, is not banned, and no session *)
(* resolves to any user: the administrator's session was logged out.      *)
C21_Witness ==
    /\ \E i \in DOMAIN modLogs : modLogs[i].moderatorId = 1
    /\ ~users[1].isBanned
    /\ \A s \in Sessions : sessions[s].userId = NULL

Logins == {r \in Requests : r.op = "login"}

(* The user a login request names, NULL when no user has that email.      *)
AccountOf(r) == getUserByEmail(DB, toLowerCase(r.mail))

Namesakes(u) ==
    {v \in DOMAIN users \ {u} : \/ users[v].email = users[u].email
                                 \/ users[v].username = users[u].username}

Taken(name, mail) ==
    \E u \in DOMAIN users : users[u].email = mail \/ users[u].username = name

(* A refusal with Conflict that creates no user and binds no session.     *)
ConflictOnly(s, out) ==
    /\ out.kind = "Conflict"
    /\ out.db = DB
    /\ out.sess.userId = sessions[s].userId

(* C23: no two users share an email or a username; a register whose email *)
(* or username an existing user has fails Conflict, creates no user and   *)
(* binds no session, both when the request is handled in one piece and    *)
(* when its insert comes after another registration's insert.             *)
C23_RegisterConflict ==
    /\ \A u \in DOMAIN users : Namesakes(u) = {}
    /\ \A s \in Sessions :
          /\ \A hdr \in Headers :
                (Idle(s) /\ HoldsToken(s, hdr) /\ ~BannedSession(s)) =>
                    \A r \in Registrations :
                        (r.valid /\ Taken(r.name, r.mail)) =>
                            \A out \in Outcomes(s, hdr, r) : ConflictOnly(s, out)
          /\ (pc[s].at = "createUser" /\ Taken(pc[s].name, pc[s].mail)) =>
                ConflictOnly(s, registerInsert(DB, sessions[s], now,
                                               pc[s].name, pc[s].mail))

(* The step ends a read of session s: its incrementViewCount has run.     *)
ReadCompletes(s) == pc[s].at = "incrementViewCount" /\ pc'[s].at = "idle"

(* C24: in every step, a thread's viewCount grows by the number of reads  *)
(* of that thread the step completes, so it never decreases and n reads   *)
(* raise it by n; a step that completes a read changes nothing else in    *)
(* the database.                                                          *)
C24_ViewCount ==
    [][ /\ \A t \in DOMAIN threads \cap DOMAIN threads' :
              threads'[t].viewCount = threads[t].viewCount +
                  Cardinality({s \in Sessions : ReadCompletes(s) /\ pc[s].tid = t})
        /\ \A s \in Sessions :
              (ReadCompletes(s) /\ pc[s].tid \in DOMAIN threads) =>
                  DB' = [DB EXCEPT !.threads[pc[s].tid].viewCount = @ + 1]
      ]_vars

(* A thread with a reply has been read twice, and another thread exists   *)
(* that has not been read.                                                *)
C24_Witness ==
    \E t, u \in DOMAIN threads :
        /\ threads[t].viewCount = 2
        /\ threads[t].replyCount > 0
        /\ t # u
        /\ threads[u].viewCount = 0

(* No request and no storage call is between two of its statements.       *)
AtRest == \A s \in Sessions : Idle(s)

(* C25: when every content operation that was started has run to          *)
(* completion, each category's threadCount and postCount equal the        *)
(* numbers of threads and posts in it, however the operations' reads and  *)
(* writes interleaved.                                                    *)
C25_CountersAtRest ==
    AtRest =>
        \A c \in CategoryIds :
            /\ categories[c].threadCount = Cardinality(ThreadsIn(c))
            /\ categories[c].postCount = Cardinality(PostsOfCategory(c))

(* C26: when createPost calls have interleaved and completed, and no post *)
(* was ever deleted, each thread's replyCount is the number of posts       *)
(* inserted in it and its lastReplyById is the author of the post that    *)
(* was inserted last.                                                     *)
C26_LastReplyUnderRace ==
    (AtRest /\ modLogs = <<>>) =>
        \A t \in DOMAIN threads :
            /\ threads[t].replyCount = Cardinality(PostsIn(t))
            /\ PostsIn(t) # {} =>
                  threads[t].lastReplyById = posts[LatestPost(t)].authorId

(* C28: once the deletePost calls that were started have completed, each *)
(* thread's replyCount is not negative and equals the number of posts     *)
(* left in the thread: a post deleted by two calls is counted once.       *)
C28_SingleDecrement ==
    AtRest =>
        \A t \in DOMAIN threads :
            /\ threads[t].replyCount >= 0
            /\ threads[t].replyCount = Cardinality(PostsIn(t))

(* The createPost calls that have inserted their post and not yet run the *)
(* statement named by one of the labels.                                  *)
Pending(labels) ==
    {s \in Sessions : pc[s].at \in labels /\ pc[s].route = "createPost"}

C29_NoInsertWhenBanned ==
    [][/\ \A t \in DOMAIN threads' \ DOMAIN threads :
             ~users[threads'[t].authorId].isBanned
       /\ \A p \in DOMAIN posts' \ DOMAIN posts :
             ~users[posts'[p].authorId].isBanned]_vars

(* The requests that authenticate a session.                              *)
Authentications == {r \in Requests : r.op \in {"login", "register"}}

(* C30: a login or register request leaves the anti-forgery token of a    *)
(* session that has one as it was, whatever the outcome, and when the     *)
(* request binds the session to a user the token the session had before   *)
(* passes csrfProtection on a state-changing method afterwards.  The      *)
(* session of a banned user is destroyed by checkBanned instead.          *)
C30_TokenSurvivesAuthentication ==
    \A s \in Sessions : \A hdr \in Headers : \A r \in Authentications :
        (sessions[s].csrfToken # NULL /\ ~BannedSession(s)) =>
            \A out \in Outcomes(s, hdr, r) :
                /\ out.sess.csrfToken = sessions[s].csrfToken
                /\ out.kind \in {"OK", "Created"} =>
                      /\ out.sess.userId # NULL
                      /\ csrfProtection(out.sess, "POST", sessions[s].csrfToken)

(* A session that holds a token is bound to a user who registered through *)
(* it or logged in with it.                                               *)
C30_Witness ==
    \E s \in Sessions :
        /\ sessions[s].csrfToken # NULL
        /\ sessions[s].userId = 3
        /\ ~users[3].isBanned

====
